---- MODULE Spec2Model ----
(***************************************************************************)
(* A model of the arbitrage decision-and-execution cycle of                *)
(* src/bot.py (class EnhancedArbitrageBot): the gas refresh, the           *)
(* evaluation of the two round-trip directions, the two-leg execution and  *)
(* the endless cycle loop of run().                                        *)
(*                                                                         *)
(* Amounts.  The program computes with Python integers of unbounded size   *)
(* in units of 10**-18 token ("wei") and 10**-9 native unit ("Gwei").      *)
(* TLC's integers are 32 bits wide, so the model runs the same code with   *)
(* the two scale factors 10**18 and 10**9 replaced by the small numbers    *)
(* E18 and GWEI; every other constant of the program is expressed through  *)
(* them exactly as in the source (95 * 10**18 is 95 * E18, and so on).     *)
(* GWEI is large enough for the ceilings to lie above the first gas prices *)
(* on which the program's floating-point products differ from the exact    *)
(* ones.                                                                   *)
(*                                                                         *)
(* Environment.  The chain RPC, the quote aggregator and the operator      *)
(* channel are outside the program: every answer they give is an input     *)
(* chosen with \E from a small set, an RPC or HTTP failure included.       *)
(***************************************************************************)
EXTENDS Integers, Sequences, FiniteSets, TLC

(***************************************************************************)
(* Scale factors and bounds of the model.                                  *)
(***************************************************************************)
E18 == 10                 \* stands for 10**18 (one token in wei)
GWEI == 20                \* stands for 10**9 (one Gwei in wei)
MaxNetGas == 240          \* largest network gas price the RPC reports
MaxGasEst == 2            \* largest gas estimate a quote carries
MaxRate == 3              \* largest reference rate the price API reports
MaxAttempts == 4          \* answers the aggregator has ready for one request
MaxLatency == 1           \* seconds an iteration takes besides its sleep
MaxSilent == 1200         \* seconds without a refresh the clock is followed
MaxNonce == 2             \* transactions of the bot the chain mines in a run
WaitTimeout == 6          \* stands for the 30 s wait, in half seconds

(***************************************************************************)
(* Program constants (src/bot.py, __init__).                               *)
(***************************************************************************)
USDT == "USDT"
BUSD == "BUSD"
AMOUNT_USDT == 95 * E18
MIN_PROFIT == (3 * E18) \div 10        \* 0.3 * 10**18
DefaultBnbPrice == 300 * E18           \* 300 * 10**18
gas_strategy == "medium"

\* An RPC call that raises instead of returning a value.
RpcError == -1
\* A latest block that carries no baseFeePerGas field.
NoBaseFee == -2
\* self.gas_price before the first assignment (the attribute does not exist).
Unset == -1

Min2(a, b) == IF a <= b THEN a ELSE b
Min3(a, b, c) == Min2(a, Min2(b, c))

(***************************************************************************)
(* Quotes.  _get_quote returns the aggregator's JSON document or None.     *)
(***************************************************************************)
NoQuote == [ok |-> FALSE, buyAmount |-> 0, gas |-> 0]
MkQuote(b, g) == [ok |-> TRUE, buyAmount |-> b, gas |-> g]

\* One answer of the aggregator to a quote request: an HTTP status with the
\* quote document of a 200; status 0 stands for a transport error or a
\* timeout (session.get raises).
OkResponse(q) == [status |-> 200, quote |-> q]
ErrResponse(st) == [status |-> st, quote |-> NoQuote]
Responses ==
    {OkResponse(MkQuote(AMOUNT_USDT + 1, 1)), OkResponse(MkQuote(AMOUNT_USDT + 4, MaxGasEst)),
     ErrResponse(429), ErrResponse(500), ErrResponse(0)}

\* _get_quote (lines 122-147).  sess tells whether self.session is set and
\* resps lists what the aggregator answers to the successive requests made for
\* this quote.  The result is the quote returned (NoQuote is None) and the
\* number of requests sent: the method sends one request and returns its
\* document on a 200 and None on every other status and on an exception.
GetQuote(sess, resps) ==
    IF ~sess THEN [quote |-> NoQuote, sent |-> 0]
    ELSE [quote |-> IF resps[1].status = 200 THEN resps[1].quote ELSE NoQuote,
          sent |-> 1]

\* What the aggregator may answer for a first leg and for a return leg.
FirstAnswers == {NoQuote, MkQuote(AMOUNT_USDT - 2, 1), MkQuote(AMOUNT_USDT + 1, MaxGasEst)}
FinalAnswers == {NoQuote, MkQuote(AMOUNT_USDT + 4, MaxGasEst), MkQuote(AMOUNT_USDT + 6, MaxGasEst)}

\* What the chain may answer.
NetGasPrices == {0, 3, MaxNetGas}
BaseFees == {NoBaseFee, RpcError, 2, 9}
Balances == {AMOUNT_USDT - 1, AMOUNT_USDT}
\* What the price API may answer; 0 stands for None (failure) and for a
\* quoted price of 0, which the code's "or" treats alike.
Rates == {0, 1, MaxRate}

\* A leg transaction as _execute_swap builds it (lines 161-169), with what
\* the chain has done with it: "pending", "mined_ok" (receipt status 1),
\* "mined_fail" (receipt status 0) or "dropped" (another transaction with its
\* nonce was mined).
NoTx == [sent |-> FALSE, nonce |-> 0, gas |-> 0, gasPrice |-> 0, fate |-> "none"]
MkTx(n, g, gp) == [sent |-> TRUE, nonce |-> n, gas |-> g, gasPrice |-> gp,
                   fate |-> "pending"]

\* The clock of run()'s loop before the loop is entered.
NotRunning == [on |-> FALSE, clock |-> 0, silent |-> 0]

DirA == "USDT->BUSD->USDT"
DirB == "BUSD->USDT->BUSD"
NoOpp == [direction |-> "None", quote1 |-> NoQuote, quote2 |-> NoQuote,
          net_profit_wei |-> 0, gross_profit_wei |-> 0]

VARIABLES
    pc,             \* position of the run() coroutine
    session,        \* self.session is an open aiohttp session
    gas_price,      \* self.gas_price
    bnb_price,      \* self.bnb_price (0 is None)
    gasRefreshed,   \* a call of _update_gas_parameters has returned
    loopStarted,    \* run() has entered its while loop
    quote1,         \* answer to the initial USDT->BUSD request of this cycle
    quote2,         \* answer to the initial BUSD->USDT request of this cycle
    final1,         \* the aggregator's answer for the return leg BUSD->USDT
    final2,         \* the aggregator's answer for the return leg USDT->BUSD
    balance,        \* answer of the balanceOf call of this cycle
    requests,       \* quote requests issued in this cycle, in order
    opportunities,  \* the list built by _check_arbitrage
    best,           \* what _check_arbitrage returned
    leg1,           \* what the execution has seen of leg 1
    leg2,           \* what the execution has seen of leg 2
    report,         \* last message handed to _send_telegram
    ret,            \* what _execute_arbitrage returned in this cycle
    startup,        \* what the process finds when the bot is constructed
    telegram,       \* TELEGRAM_TOKEN and TELEGRAM_CHAT_ID are both set
    delivery,       \* what _send_telegram did in the step just taken
    chainCount,     \* transactions of the bot's address mined so far
    tx1,            \* the leg-1 transaction of this execution and its fate
    tx2,            \* the leg-2 transaction of this execution and its fate
    stale,          \* nonces of earlier legs that are still unmined
    elapsed,        \* time the current confirmation wait has slept
    execGas,        \* gas price set by the refresh of this execution
    unit,           \* a single call of one method: its arguments and result
    sched           \* the loop's clock: time of day and time since a refresh

botVars == <<pc, session, gas_price, bnb_price, gasRefreshed, loopStarted,
             quote1, quote2, final1, final2, balance, requests, opportunities,
             best, leg1, leg2, report, ret, startup, telegram, delivery,
             chainCount, tx1, tx2, stale, elapsed, execGas>>

chainVars == <<chainCount, tx1, tx2, stale, elapsed, execGas>>

vars == <<botVars, unit, sched>>

cycleVars == <<quote1, quote2, final1, final2, balance, requests,
               opportunities, best>>
execVars == <<leg1, leg2, ret>>

(***************************************************************************)
(* GasPolicy: _update_gas_parameters (src/bot.py 82-106).                  *)
(***************************************************************************)
HardCeiling(strategy) == IF strategy = "aggressive" THEN 20 * GWEI ELSE 10 * GWEI

\* int(x * 1.15), int(x * 1.3), int(x * 1.5), int(x * 2): the product is
\* computed in double precision and then truncated.  1.3, 1.5 and 2 give the
\* exact quotient on 0..339.  The double nearest to 1.15 lies below 1.15, so
\* where x * 115 / 100 is an integer the product may round to a double just
\* below that integer and truncate to one less: on 0..339 this happens for
\* exactly the values of RoundsBelow115 (int(100 * 1.15) is 114).
RoundsBelow115 == {100, 180, 200, 220}

IntMul(x, num, den) ==
    IF num = 115 /\ den = 100 /\ x \in RoundsBelow115
    THEN ((x * num) \div den) - 1
    ELSE (x * num) \div den

GasPriceFor(strategy, current_gas, base_fee) ==
    IF strategy = "aggressive"
    THEN Min3(IntMul(current_gas, 13, 10), IntMul(base_fee, 2, 1), 20 * GWEI)
    ELSE Min3(IntMul(current_gas, 115, 100), IntMul(base_fee, 3, 2), 10 * GWEI)

\* A variant that falls back to the default without trying the last rate.
RateOrForgetsLast(p, last) == IF p # 0 THEN p ELSE DefaultBnbPrice

\* Lines 88-95: base_fee is the block's baseFeePerGas, and current_gas when
\* the block has no such field or reading the block raises.
BaseFeeTerm(blk, current_gas) ==
    IF blk \in {NoBaseFee, RpcError} THEN current_gas ELSE blk

\* self.bnb_price = await self._get_bnb_price() or self.bnb_price or 300 * 10**18
RateOr(p, last) == IF p # 0 THEN p ELSE IF last # 0 THEN last ELSE DefaultBnbPrice

\* One call of _update_gas_parameters.  p is the price API's answer, g the
\* first read of eth.gas_price, blk the answer of get_block('latest'), g2 the
\* read of eth.gas_price in the except branch.  The result tells whether the
\* call raised and gives the two fields it leaves behind.
UpdateGas(p, g, blk, g2) ==
    LET rate == RateOr(p, bnb_price)
        base_fee == BaseFeeTerm(blk, g)
    IN  IF g # RpcError
        THEN [raised |-> FALSE, bnb |-> rate,
              gas |-> GasPriceFor(gas_strategy, g, base_fee)]
        ELSE IF g2 # RpcError
        THEN [raised |-> FALSE, bnb |-> rate, gas |-> g2]
        ELSE [raised |-> TRUE, bnb |-> rate, gas |-> gas_price]

GasReads == NetGasPrices \cup {RpcError}

(***************************************************************************)
(* OpportunityEvaluator: _calculate_net_profit and _check_arbitrage        *)
(* (src/bot.py 197-291).                                                   *)
(***************************************************************************)
\* Lines 199-200 of _calculate_net_profit: self.bnb_price as the call leaves
\* it.  An unset rate is fetched (p is the price API's answer) or replaced by
\* the default; a set rate is kept.
EnsureRate(p) == IF bnb_price = 0 THEN RateOr(p, 0) ELSE bnb_price

\* A variant that prices only the first leg's gas.
CalculateNetProfitFirstLegOnly(profit_wei, tx1_gas_used, tx2_gas_used, rate) ==
    profit_wei - ((tx1_gas_used * gas_price * rate) \div E18)

\* Lines 202-207 of _calculate_net_profit; rate is self.bnb_price after
\* lines 199-200.
CalculateNetProfit(profit_wei, tx1_gas_used, tx2_gas_used, rate) ==
    LET total_gas_wei == (tx1_gas_used + tx2_gas_used) * gas_price
        gas_cost_usdt_wei == (total_gas_wei * rate) \div E18
    IN  profit_wei - gas_cost_usdt_wei

\* The dictionary appended to opportunities for one direction.
MkOpp(dir, first, final, rate) ==
    LET gross == final.buyAmount - AMOUNT_USDT
    IN  [direction |-> dir, quote1 |-> first, quote2 |-> final,
         net_profit_wei |-> CalculateNetProfit(gross, first.gas, final.gas, rate),
         gross_profit_wei |-> gross]

\* "if quote1 and quote2:" guards the path USDT -> BUSD -> USDT.
PathAGuard(q1, q2) == q1.ok /\ q2.ok

\* A variant that asks for more than the trial amount (">" for ">=").
PathBGuardStrict(q2, bal) == q2.ok /\ bal > AMOUNT_USDT

\* A variant that forgets the balance check.
PathBGuardNoBalance(q2, bal) == q2.ok

\* "if quote2 and current_busd_balance >= self.AMOUNT_USDT:" guards the path
\* BUSD -> USDT -> BUSD.
PathBGuard(q2, bal) == q2.ok /\ bal >= AMOUNT_USDT

\* max(opportunities, key=net_profit_wei): Python keeps the first of the
\* greatest elements, replacing the held one only by a strictly greater one.
BetterOrEqual(a, b) == a.net_profit_wei >= b.net_profit_wei

Better(a, b) == a.net_profit_wei > b.net_profit_wei

RECURSIVE MaxFrom(_, _, _)
MaxFrom(opps, i, held) ==
    IF i > Len(opps) THEN held
    ELSE MaxFrom(opps, i + 1, IF Better(opps[i], held) THEN opps[i] ELSE held)

BestOf(opps) == IF opps = <<>> THEN NoOpp ELSE MaxFrom(opps, 2, opps[1])

\* The quote requests and the list of candidates _check_arbitrage produces
\* up to the balance read (path A) and after it (path B).
PathARequests(q1, q2) ==
    IF PathAGuard(q1, q2) THEN << <<BUSD, USDT, q1.buyAmount>> >> ELSE <<>>
PathAOpps(q1, q2, f1, rate) ==
    IF PathAGuard(q1, q2) /\ f1.ok THEN << MkOpp(DirA, q1, f1, rate) >> ELSE <<>>
PathBRequests(q2, bal) ==
    IF PathBGuard(q2, bal) THEN << <<USDT, BUSD, q2.buyAmount>> >> ELSE <<>>
PathBOpps(q2, bal, f2, rate) ==
    IF PathBGuard(q2, bal) /\ f2.ok THEN << MkOpp(DirB, q2, f2, rate) >> ELSE <<>>

InitialRequests == << <<USDT, BUSD, AMOUNT_USDT>>, <<BUSD, USDT, AMOUNT_USDT>> >>

\* A variant that executes at the minimum (">=" for ">").
ReachesMinimum(net) == net >= MIN_PROFIT

\* "if net_profit_wei > self.MIN_PROFIT:" in run().
ExceedsMinimum(net) == net > MIN_PROFIT

\* Line 166 of _execute_swap: 'gas': min(int(quote['gas']) * 13 // 10, 800000).
HardGasCap == 800000

\* A variant without the cap.
GasLimitNoCap(g) == (g * 13) \div 10

GasLimit(g) == Min2((g * 13) \div 10, HardGasCap)

\* A variant that returns True for any receipt, whatever its status.
WaitAnyReceipt(seen) == seen # "timeout"

\* _wait_for_confirmation returns receipt.status == 1 for a receipt and
\* False when the wait ran out; seen is "success", "reverted" or "timeout".
WaitConfirmed(seen) == seen = "success"
(***************************************************************************)
(* Construction (app.py start_bot, bot.py __init__ and _setup_web3).       *)
(* startup.key tells whether PRIVATE_KEY is set, startup.rpcs which of the *)
(* three endpoints of BSC_RPCS answer is_connected() with True (an         *)
(* endpoint whose check raises counts as not connected).  Neither is read  *)
(* again after construction, so the model forgets them when run() begins.  *)
(***************************************************************************)
Forgotten == [key |-> TRUE, rpcs |-> <<TRUE, TRUE, TRUE>>, read |-> TRUE]

\* _setup_web3: the index of the first endpoint that is connected, 0 when
\* the loop ends without one and "No RPC connection available" is raised.
SetupWeb3(rpcs) ==
    IF \E i \in DOMAIN rpcs : rpcs[i]
    THEN CHOOSE i \in DOMAIN rpcs : rpcs[i] /\ \A j \in 1..(i - 1) : ~rpcs[j]
    ELSE 0

\* A variant without the check of lines 22-23.
KeyCheckMissing(key) == FALSE

\* Lines 20-23: ValueError when PRIVATE_KEY is not set.
KeyMissing(key) == ~key

(***************************************************************************)
(* Notifier: _send_telegram (lines 108-120).  answer is the HTTP status of *)
(* the Telegram API, 0 standing for a transport error or a timeout         *)
(* (session.post raises).  The outcome is "skipped" when the method        *)
(* returns at line 111 without a request, "sent" for a 200 and "failed"    *)
(* for a request that was not delivered; raised tells whether an exception *)
(* leaves the method.                                                      *)
(***************************************************************************)
TelegramAnswers == {200, 400, 0}

\* A variant without the try/except of lines 114-120.
SendTelegramUncaught(sess, configured, answer) ==
    IF ~sess \/ ~configured
    THEN [outcome |-> "skipped", raised |-> FALSE]
    ELSE [outcome |-> IF answer = 200 THEN "sent" ELSE "failed",
          raised |-> (answer = 0)]

SendTelegram(sess, configured, answer) ==
    IF ~sess \/ ~configured
    THEN [outcome |-> "skipped", raised |-> FALSE]
    ELSE [outcome |-> IF answer = 200 THEN "sent" ELSE "failed",
          raised |-> FALSE]

\* "await self._send_telegram(msg)" at a place of the program: normal is
\* where the coroutine goes on when the call returns, escape where an
\* exception leaving the call would take it.
Notify(msg, normal, escape) ==
    \E answer \in TelegramAnswers :
        LET d == SendTelegram(session, telegram, answer)
        IN  /\ report' = msg
            /\ delivery' = d.outcome
            /\ pc' = IF d.raised THEN escape ELSE normal

(***************************************************************************)
(* The state when start_bot is about to construct the bot; the fields are  *)
(* those __init__ sets (self.session = None, self.bnb_price = None).       *)
(***************************************************************************)
Init ==
    /\ pc = "new"
    /\ startup \in [key : BOOLEAN, rpcs : [1..3 -> BOOLEAN], read : {FALSE}]
    /\ session = FALSE
    /\ gas_price = Unset
    /\ bnb_price = 0
    /\ gasRefreshed = FALSE
    /\ loopStarted = FALSE
    /\ quote1 = NoQuote /\ quote2 = NoQuote
    /\ final1 = NoQuote /\ final2 = NoQuote
    /\ balance = 0
    /\ requests = <<>>
    /\ opportunities = <<>>
    /\ best = NoOpp
    /\ leg1 = "none" /\ leg2 = "none"
    /\ report = "none"
    /\ ret = "none"
    /\ telegram \in BOOLEAN
    /\ delivery = "none"
    /\ chainCount = 0
    /\ tx1 = NoTx /\ tx2 = NoTx
    /\ stale = {}
    /\ elapsed = 0
    /\ execGas = Unset
    /\ unit = [fn |-> "none"]
    /\ sched = NotRunning

\* start_bot, line 13: EnhancedArbitrageBot().  An exception raised by
\* __init__ ends start_bot before run() is called.
Construct ==
    /\ pc = "new"
    /\ pc' = IF SetupWeb3(startup.rpcs) = 0 \/ KeyMissing(startup.key)
             THEN "aborted" ELSE "start"
    /\ UNCHANGED <<session, gas_price, bnb_price, gasRefreshed, loopStarted,
                   cycleVars, execVars, report, startup, telegram>>
    /\ delivery' = "none"
    /\ UNCHANGED chainVars
    /\ UNCHANGED <<unit, sched>>

(***************************************************************************)
(* run(), lines 352-357: the start message is handed to _send_telegram     *)
(* while self.session is still None, the session is opened and the         *)
(* reference rate is fetched for the first time.                           *)
(***************************************************************************)
StartRun ==
    /\ pc = "start"
    /\ \E p \in Rates :
        bnb_price' = RateOr(p, 0)
    /\ Notify("Started", "init_gas", "crashed")
    /\ session' = TRUE
    /\ startup' = Forgotten
    /\ UNCHANGED telegram
    /\ UNCHANGED <<gas_price, gasRefreshed, loopStarted, cycleVars, execVars>>
    /\ UNCHANGED chainVars
    /\ UNCHANGED <<unit, sched>>

\* run(), line 358: the first gas refresh, outside the loop's try block.  An
\* exception raised here ends run().
InitialRefresh ==
    /\ pc = "init_gas"
    /\ \E p \in Rates, g \in GasReads, blk \in BaseFees, g2 \in GasReads :
        LET r == UpdateGas(p, g, blk, g2)
        IN  /\ bnb_price' = r.bnb
            /\ gas_price' = r.gas
            /\ gasRefreshed' = (gasRefreshed \/ ~r.raised)
            /\ pc' = IF r.raised THEN "crashed" ELSE "cycle"
            /\ loopStarted' = ~r.raised
    /\ UNCHANGED <<session, cycleVars, execVars, report>>
    /\ UNCHANGED <<startup, telegram>>
    /\ delivery' = "none"
    /\ UNCHANGED chainVars
    /\ UNCHANGED <<unit, sched>>

\* The end of a loop iteration: its locals, and the model's record of what
\* the iteration did, are gone when the next one begins.  A leg that is still
\* unmined stays in the mempool.
ResetCycle ==
    /\ quote1' = NoQuote /\ quote2' = NoQuote
    /\ final1' = NoQuote /\ final2' = NoQuote
    /\ balance' = 0
    /\ requests' = <<>>
    /\ opportunities' = <<>>
    /\ best' = NoOpp
    /\ leg1' = "none" /\ leg2' = "none"
    /\ ret' = "none"
    /\ report' = "none"
    /\ stale' = stale \cup {t.nonce : t \in {u \in {tx1, tx2} : u.fate = "pending"}}
    /\ tx1' = NoTx /\ tx2' = NoTx
    /\ elapsed' = 0
    /\ execGas' = Unset

\* run(), line 363 with time.time() % 600 >= 5: no refresh in this cycle.
SkipRefresh ==
    /\ pc = "cycle"
    /\ pc' = "check"
    /\ UNCHANGED <<session, gas_price, bnb_price, gasRefreshed, loopStarted,
                   cycleVars, execVars, report>>
    /\ UNCHANGED <<startup, telegram>>
    /\ delivery' = "none"
    /\ UNCHANGED chainVars
    /\ UNCHANGED <<unit, sched>>

\* run(), lines 363-364 with time.time() % 600 < 5: the periodic refresh.
PeriodicRefresh ==
    /\ pc = "cycle"
    /\ \E p \in Rates, g \in GasReads, blk \in BaseFees, g2 \in GasReads :
        LET r == UpdateGas(p, g, blk, g2)
        IN  /\ bnb_price' = r.bnb
            /\ gas_price' = r.gas
            /\ gasRefreshed' = (gasRefreshed \/ ~r.raised)
            /\ pc' = IF r.raised THEN "loop_error" ELSE "check"
    /\ UNCHANGED <<session, loopStarted, cycleVars, execVars, report>>
    /\ UNCHANGED <<startup, telegram>>
    /\ delivery' = "none"
    /\ UNCHANGED chainVars
    /\ UNCHANGED <<unit, sched>>

(***************************************************************************)
(* _check_arbitrage (lines 209-291).  q1 and q2 are the answers to the two *)
(* concurrent initial requests, f1 and f2 the answers the aggregator gives *)
(* for the two return legs, bal the answer of balanceOf (RpcError: the     *)
(* call raises and the exception leaves _check_arbitrage), p the price     *)
(* API's answer should _calculate_net_profit find the rate unset.          *)
(***************************************************************************)
CheckArbitrage ==
    /\ pc = "check"
    /\ \E q1 \in FirstAnswers, q2 \in FirstAnswers,
          f1 \in FinalAnswers, f2 \in FinalAnswers,
          bal \in Balances \cup {RpcError},
          p \in (IF bnb_price = 0 THEN Rates ELSE {0}) :
        LET rate == EnsureRate(p)
            oppsA == PathAOpps(q1, q2, f1, rate)
            oppsB == PathBOpps(q2, bal, f2, rate)
        IN  /\ quote1' = q1 /\ quote2' = q2
            /\ final1' = f1 /\ final2' = f2
            /\ balance' = bal
            /\ IF bal = RpcError
               THEN /\ requests' = InitialRequests \o PathARequests(q1, q2)
                    /\ opportunities' = <<>>
                    /\ best' = NoOpp
                    /\ bnb_price' = IF oppsA # <<>> THEN rate ELSE bnb_price
                    /\ pc' = "loop_error"
               ELSE /\ requests' = InitialRequests \o PathARequests(q1, q2)
                                     \o PathBRequests(q2, bal)
                    /\ opportunities' = oppsA \o oppsB
                    /\ best' = BestOf(oppsA \o oppsB)
                    /\ bnb_price' = IF oppsA \o oppsB # <<>> THEN rate
                                    ELSE bnb_price
                    /\ pc' = "decide"
    /\ UNCHANGED <<session, gas_price, gasRefreshed, loopStarted,
                   execVars, report>>
    /\ UNCHANGED <<startup, telegram>>
    /\ delivery' = "none"
    /\ UNCHANGED chainVars
    /\ UNCHANGED <<unit, sched>>

(***************************************************************************)
(* run(), lines 368-386: the decision on the returned opportunity.         *)
(***************************************************************************)
\* net_profit_wei <= 0: nothing is done in this cycle.
NoProfit ==
    /\ pc = "decide"
    /\ ~(best.net_profit_wei > 0)
    /\ pc' = "sleep"
    /\ UNCHANGED <<session, gas_price, bnb_price, gasRefreshed, loopStarted,
                   cycleVars, execVars, report>>
    /\ UNCHANGED <<startup, telegram>>
    /\ delivery' = "none"
    /\ UNCHANGED chainVars
    /\ UNCHANGED <<unit, sched>>

\* 0 < net_profit_wei and not above MIN_PROFIT: the low-profit message.
LowProfit ==
    /\ pc = "decide"
    /\ best.net_profit_wei > 0
    /\ ~ExceedsMinimum(best.net_profit_wei)
    /\ Notify("LowProfit", "sleep", "loop_error")
    /\ UNCHANGED <<session, gas_price, bnb_price, gasRefreshed, loopStarted,
                   cycleVars, execVars>>
    /\ UNCHANGED <<startup, telegram>>
    /\ UNCHANGED chainVars
    /\ UNCHANGED <<unit, sched>>

\* net_profit_wei above MIN_PROFIT: _execute_arbitrage is entered with the
\* returned opportunity (line 374); the quotes and candidates the evaluation
\* worked with are not passed on.
Execute ==
    /\ pc = "decide"
    /\ best.net_profit_wei > 0
    /\ ExceedsMinimum(best.net_profit_wei)
    /\ pc' = "exec_refresh"
    /\ quote1' = NoQuote /\ quote2' = NoQuote
    /\ final1' = NoQuote /\ final2' = NoQuote
    /\ requests' = <<>>
    /\ opportunities' = <<>>
    /\ UNCHANGED <<session, gas_price, bnb_price, gasRefreshed, loopStarted,
                   balance, best, execVars, report>>
    /\ UNCHANGED <<startup, telegram>>
    /\ delivery' = "none"
    /\ UNCHANGED chainVars
    /\ UNCHANGED <<unit, sched>>

(***************************************************************************)
(* ExecutionEngine: _execute_arbitrage (lines 293-349).  An exception      *)
(* raised inside its try block is caught at line 346: the error message is *)
(* sent and False is returned, after which run() sleeps 5 seconds.         *)
(***************************************************************************)
\* Line 295: the refresh before the legs are submitted.
ExecRefresh ==
    /\ pc = "exec_refresh"
    /\ \E p \in Rates, g \in GasReads, blk \in BaseFees, g2 \in GasReads :
        LET r == UpdateGas(p, g, blk, g2)
        IN  /\ bnb_price' = r.bnb
            /\ gas_price' = r.gas
            /\ gasRefreshed' = (gasRefreshed \/ ~r.raised)
            /\ IF r.raised
               THEN /\ Notify("ExecError", "sleep", "loop_error")
                    /\ ret' = "false"
                    /\ UNCHANGED execGas
               ELSE /\ UNCHANGED <<report, ret>>
                    /\ delivery' = "none"
                    /\ execGas' = r.gas
                    /\ pc' = "exec_notify"
    /\ UNCHANGED <<session, loopStarted, cycleVars, leg1, leg2>>
    /\ UNCHANGED <<chainCount, tx1, tx2, stale, elapsed>>
    /\ UNCHANGED <<startup, telegram>>
    /\ UNCHANGED <<unit, sched>>

\* Lines 297-304: the "Found Arbitrage" message.
\* A variant in which the notification resets the gas price.
NotifyFoundResetsGas ==
    /\ pc = "exec_notify"
    /\ Notify("Found", "leg1", "sleep")
    /\ gas_price' = 5 * GWEI
    /\ UNCHANGED <<session, bnb_price, gasRefreshed, loopStarted,
                   cycleVars, execVars>>
    /\ UNCHANGED <<startup, telegram>>
    /\ UNCHANGED chainVars
    /\ UNCHANGED <<unit, sched>>

NotifyFound ==
    /\ pc = "exec_notify"
    /\ Notify("Found", "leg1", "sleep")
    /\ UNCHANGED <<session, gas_price, bnb_price, gasRefreshed, loopStarted,
                   cycleVars, execVars>>
    /\ UNCHANGED <<startup, telegram>>
    /\ UNCHANGED chainVars
    /\ UNCHANGED <<unit, sched>>

\* A variant that sends every leg at a fixed 5 Gwei.
TxGasPriceFixed == 5 * GWEI

\* Line 167 of _execute_swap: 'gasPrice': self.gas_price.
TxGasPrice == gas_price

\* Line 159 of _execute_swap: get_transaction_count(self.address), which
\* counts the mined transactions of the address (block 'latest').
CurrentNonce == chainCount

\* Lines 306-308: _execute_swap(quote1).  The nonce read, the signing or the
\* broadcast may raise (the node may also refuse the transaction); otherwise
\* the transaction is broadcast.
SubmitLeg1 ==
    /\ pc = "leg1"
    /\ \E sent \in BOOLEAN :
        IF sent
        THEN /\ leg1' = "pending"
             /\ tx1' = MkTx(CurrentNonce, GasLimit(best.quote1.gas), TxGasPrice)
             /\ pc' = "wait1"
             /\ delivery' = "none"
             /\ UNCHANGED <<report, ret>>
        ELSE /\ leg1' = "submit_error"
             /\ Notify("ExecError", "sleep", "loop_error")
             /\ ret' = "false"
             /\ UNCHANGED tx1
    /\ elapsed' = 0
    /\ UNCHANGED <<session, gas_price, bnb_price, gasRefreshed, loopStarted,
                   cycleVars, leg2>>
    /\ UNCHANGED <<chainCount, tx2, stale, execGas>>
    /\ UNCHANGED <<startup, telegram>>
    /\ UNCHANGED <<unit, sched>>

(***************************************************************************)
(* _wait_for_confirmation (lines 179-195), one iteration of its loop per   *)
(* step.  Time is counted in half seconds: asyncio.sleep(1.5) is 3 and     *)
(* asyncio.sleep(2) is 4.                                                  *)
(***************************************************************************)
SleepNone == 3
SleepRetry == 4

\* What get_transaction_receipt may do for a transaction: return a receipt
\* with status 1 ("success") or 0 ("reverted") once it is mined, return None
\* ("none"), raise TransactionNotFound ("not_found") or raise another
\* exception ("error").
PollAnswers(tx) ==
    {"none", "not_found", "error"}
        \cup (IF tx.fate = "mined_ok" THEN {"success"} ELSE {})
        \cup (IF tx.fate = "mined_fail" THEN {"reverted"} ELSE {})

\* A variant with the comparison of the loop condition inverted.
TimedOutAtOnce(e) == e < WaitTimeout

\* "while time.time() - start_time < timeout" ends the loop.
TimedOut(e) == e >= WaitTimeout

\* One iteration: a receipt ends the wait with its status; otherwise the
\* coroutine sleeps and the loop condition is tested again.  The clock is a
\* local of the call and is gone when it returns.
WaitStep(answer, e) ==
    IF answer \in {"success", "reverted"}
    THEN [done |-> TRUE, seen |-> answer, elapsed |-> 0]
    ELSE LET e2 == e + (IF answer = "none" THEN SleepNone ELSE SleepRetry)
         IN  IF TimedOut(e2)
             THEN [done |-> TRUE, seen |-> "timeout", elapsed |-> 0]
             ELSE [done |-> FALSE, seen |-> "pending", elapsed |-> e2]

\* Lines 310-317: the wait for leg 1 and the message sent when it fails.
WaitLeg1 ==
    /\ pc = "wait1"
    /\ \E answer \in PollAnswers(tx1) :
        LET w == WaitStep(answer, elapsed)
        IN  /\ elapsed' = w.elapsed
            /\ leg1' = w.seen
            /\ IF ~w.done
               THEN /\ delivery' = "none"
                    /\ UNCHANGED <<pc, report, ret>>
               ELSE IF WaitConfirmed(w.seen)
               THEN /\ pc' = "leg2"
                    /\ delivery' = "none"
                    /\ UNCHANGED <<report, ret>>
               ELSE /\ Notify("FailedTX1", "sleep", "sleep")
                    /\ ret' = "false"
    /\ UNCHANGED <<session, gas_price, bnb_price, gasRefreshed, loopStarted,
                   cycleVars, leg2>>
    /\ UNCHANGED <<chainCount, tx1, tx2, stale, execGas>>
    /\ UNCHANGED <<startup, telegram>>
    /\ UNCHANGED <<unit, sched>>

\* Lines 319-321: _execute_swap(quote2).
SubmitLeg2 ==
    /\ pc = "leg2"
    /\ \E sent \in BOOLEAN :
        IF sent
        THEN /\ leg2' = "pending"
             /\ tx2' = MkTx(CurrentNonce, GasLimit(best.quote2.gas), TxGasPrice)
             /\ pc' = "wait2"
             /\ delivery' = "none"
             /\ UNCHANGED <<report, ret>>
        ELSE /\ leg2' = "submit_error"
             /\ Notify("ExecError", "sleep", "loop_error")
             /\ ret' = "false"
             /\ UNCHANGED tx2
    /\ elapsed' = 0
    /\ UNCHANGED <<session, gas_price, bnb_price, gasRefreshed, loopStarted,
                   cycleVars, leg1>>
    /\ UNCHANGED <<chainCount, tx1, stale, execGas>>
    /\ UNCHANGED <<startup, telegram>>
    /\ UNCHANGED <<unit, sched>>

\* Lines 323-344: the wait for leg 2, the failure message or the completion
\* message.
WaitLeg2 ==
    /\ pc = "wait2"
    /\ \E answer \in PollAnswers(tx2) :
        LET w == WaitStep(answer, elapsed)
        IN  /\ elapsed' = w.elapsed
            /\ leg2' = w.seen
            /\ IF ~w.done
               THEN /\ delivery' = "none"
                    /\ UNCHANGED <<pc, report, ret>>
               ELSE IF WaitConfirmed(w.seen)
               THEN /\ Notify("Completed", "cooldown", "sleep")
                    /\ ret' = "true"
               ELSE /\ Notify("FailedTX2", "sleep", "sleep")
                    /\ ret' = "false"
    /\ UNCHANGED <<session, gas_price, bnb_price, gasRefreshed, loopStarted,
                   cycleVars, leg1>>
    /\ UNCHANGED <<chainCount, tx1, tx2, stale, execGas>>
    /\ UNCHANGED <<startup, telegram>>
    /\ UNCHANGED <<unit, sched>>

(***************************************************************************)
(* The chain.  A pending transaction whose nonce is the next one of the    *)
(* address may be mined at any time, with success or failure status; every *)
(* other pending transaction with that nonce is then dropped.  A broadcast *)
(* transaction cannot be withdrawn.                                        *)
(***************************************************************************)
Fated(tx, who, me, ok) ==
    IF tx.fate = "pending" /\ tx.nonce = chainCount
    THEN [tx EXCEPT !.fate = IF who # me THEN "dropped"
                             ELSE IF ok THEN "mined_ok" ELSE "mined_fail"]
    ELSE tx

Mine ==
    /\ chainCount < MaxNonce
    /\ \E who \in {"tx1", "tx2", "stale"}, ok \in BOOLEAN :
        /\ who = "tx1" => (tx1.fate = "pending" /\ tx1.nonce = chainCount)
        /\ who = "tx2" => (tx2.fate = "pending" /\ tx2.nonce = chainCount)
        /\ who = "stale" => (chainCount \in stale /\ ok)
        /\ tx1' = Fated(tx1, who, "tx1", ok)
        /\ tx2' = Fated(tx2, who, "tx2", ok)
    /\ stale' = stale \ {chainCount}
    /\ chainCount' = chainCount + 1
    /\ UNCHANGED <<pc, session, gas_price, bnb_price, gasRefreshed, loopStarted,
                   cycleVars, execVars, report, startup, telegram, delivery,
                   elapsed, execGas, unit, sched>>

(***************************************************************************)
(* CycleScheduler: the rest of run()'s loop (lines 374-393).               *)
(***************************************************************************)
\* Line 375: asyncio.sleep(60) after a successful trade.
Cooldown ==
    /\ pc = "cooldown"
    /\ pc' = "sleep"
    /\ UNCHANGED <<session, gas_price, bnb_price, gasRefreshed, loopStarted,
                   cycleVars, execVars, report>>
    /\ UNCHANGED <<startup, telegram>>
    /\ delivery' = "none"
    /\ UNCHANGED chainVars
    /\ UNCHANGED <<unit, sched>>

\* Line 388: asyncio.sleep(5), then the next iteration.
Sleep ==
    /\ pc = "sleep"
    /\ ResetCycle
    /\ pc' = "cycle"
    /\ UNCHANGED <<session, gas_price, bnb_price, gasRefreshed, loopStarted>>
    /\ UNCHANGED <<startup, telegram>>
    /\ delivery' = "none"
    /\ UNCHANGED chainCount
    /\ UNCHANGED <<unit, sched>>

\* A variant whose handler lets the exception leave run().
HandlerReraises == "crashed"

\* What the "except Exception" clause of the loop does with an exception
\* raised in the iteration: it is caught and the error message is sent.
HandlerTarget == "backoff"

\* Lines 390-392: the handler of the loop.
LoopErrorHandler ==
    /\ pc = "loop_error"
    /\ Notify("LoopError", HandlerTarget, "crashed")
    /\ UNCHANGED <<session, gas_price, bnb_price, gasRefreshed, loopStarted,
                   cycleVars, execVars>>
    /\ UNCHANGED <<startup, telegram>>
    /\ UNCHANGED chainVars
    /\ UNCHANGED <<unit, sched>>

\* Line 393: asyncio.sleep(30), then the next iteration.
Backoff ==
    /\ pc = "backoff"
    /\ ResetCycle
    /\ pc' = "cycle"
    /\ UNCHANGED <<session, gas_price, bnb_price, gasRefreshed, loopStarted>>
    /\ UNCHANGED <<startup, telegram>>
    /\ delivery' = "none"
    /\ UNCHANGED chainCount
    /\ UNCHANGED <<unit, sched>>

\* The steps of the bot, without those of the chain.
BotNext ==
    \/ Construct
    \/ StartRun
    \/ InitialRefresh
    \/ SkipRefresh
    \/ PeriodicRefresh
    \/ CheckArbitrage
    \/ NoProfit
    \/ LowProfit
    \/ Execute
    \/ ExecRefresh
    \/ NotifyFound
    \/ SubmitLeg1
    \/ WaitLeg1
    \/ SubmitLeg2
    \/ WaitLeg2
    \/ Cooldown
    \/ Sleep
    \/ LoopErrorHandler
    \/ Backoff

Next ==
    \/ BotNext
    \/ Mine

Spec == Init /\ [][Next]_vars

\* The event loop runs the single run() coroutine; every await in it ends
\* (HTTP and RPC calls carry timeouts, sleeps and the confirmation wait are
\* bounded), so a step that is possible is eventually taken.
FairSpec == Spec /\ WF_vars(BotNext)

(***************************************************************************)
(* Single calls.  UnitSpec applies one method of the bot to arguments      *)
(* drawn from small sets and records the call in unit; the bot itself      *)
(* takes no step.                                                          *)
(***************************************************************************)
Strategies == {"medium", "aggressive"}
UnitGasPrices == {0, 3, 100, MaxNetGas}
UnitGasEstimates == {0, 1, 7, 150000, 615384, 615385, HardGasCap, 1000000}

\* _get_quote called once.
ApplyGetQuote ==
    /\ unit.fn = "none"
    /\ \E sess \in BOOLEAN, resps \in [1..MaxAttempts -> Responses] :
        unit' = [fn |-> "get_quote", session |-> sess, resps |-> resps,
                 res |-> GetQuote(sess, resps)]
    /\ UNCHANGED <<botVars, sched>>

\* The gas price a refresh computes (lines 87-101) once eth.gas_price has
\* been read.
ApplyGasPrice ==
    /\ unit.fn = "none"
    /\ \E strategy \in Strategies, g \in UnitGasPrices, blk \in BaseFees :
        unit' = [fn |-> "gas_price", strategy |-> strategy, g |-> g, blk |-> blk,
                 res |-> GasPriceFor(strategy, g, BaseFeeTerm(blk, g))]
    /\ UNCHANGED <<botVars, sched>>

\* The gas limit _execute_swap gives a transaction (line 166).
ApplyGasLimit ==
    /\ unit.fn = "none"
    /\ \E g \in UnitGasEstimates :
        unit' = [fn |-> "gas_limit", g |-> g, res |-> GasLimit(g)]
    /\ UNCHANGED <<botVars, sched>>

UnitNext ==
    \/ ApplyGetQuote
    \/ ApplyGasPrice
    \/ ApplyGasLimit

UnitSpec == Init /\ [][UnitNext]_vars

(***************************************************************************)
(* The cadence of the periodic refresh.  SchedSpec follows run()'s loop    *)
(* through iterations that find nothing to execute and raise nothing, and  *)
(* keeps of the bot only the clock: sched.clock is time.time() % 600 at    *)
(* the start of the iteration, in whole seconds, and sched.silent the time *)
(* since the last call of _update_gas_parameters.  An iteration takes its  *)
(* sleep of 5 s (line 388) and the time lat of its requests.               *)
(***************************************************************************)
RefreshPeriod == 600
RefreshWindow == 5
CycleSleep == 5
StartClocks == {0, RefreshWindow - 1, RefreshWindow, RefreshPeriod - 1}

\* Line 363: time.time() % 600 < 5.
RefreshDue(t) == t % RefreshPeriod < RefreshWindow

\* Lines 357-358: run() is entered at some time of day and refreshes once.
SchedStart ==
    /\ ~sched.on
    /\ \E c \in StartClocks :
        sched' = [on |-> TRUE, clock |-> c, silent |-> 0]
    /\ UNCHANGED <<botVars, unit>>

\* An iteration that begins inside the window: lines 363-364, 366, 388.
SchedRefresh ==
    /\ sched.on
    /\ RefreshDue(sched.clock)
    /\ \E lat \in 0..MaxLatency :
        sched' = [on |-> TRUE,
                  clock |-> (sched.clock + CycleSleep + lat) % RefreshPeriod,
                  silent |-> CycleSleep + lat]
    /\ UNCHANGED <<botVars, unit>>

\* An iteration that begins outside the window: lines 363, 366, 388.
SchedSkip ==
    /\ sched.on
    /\ ~RefreshDue(sched.clock)
    /\ \E lat \in 0..MaxLatency :
        /\ sched.silent + CycleSleep + lat <= MaxSilent
        /\ sched' = [on |-> TRUE,
                     clock |-> (sched.clock + CycleSleep + lat) % RefreshPeriod,
                     silent |-> sched.silent + CycleSleep + lat]
    /\ UNCHANGED <<botVars, unit>>

SchedNext ==
    \/ SchedStart
    \/ SchedRefresh
    \/ SchedSkip

SchedSpec == Init /\ [][SchedNext]_vars

(***************************************************************************)
(* Properties.                                                             *)
(***************************************************************************)
HasDirection(dir) ==
    \E i \in DOMAIN opportunities : opportunities[i].direction = dir

LegFailed(leg) == leg \in {"submit_error", "reverted", "timeout"}

\* The messages of an execution that ends with leg 1 failed: the one of
\* lines 311-317 and the one of the except clause (line 347).
leg1FailReports == {"FailedTX1", "ExecError"}

\* C1: leg 2 is submitted, or about to be, only when the wait for leg 1 has
\* seen a receipt with success status; with leg 1 not submitted, pending,
\* reverted or timed out there is no leg 2.
C1_Leg2OnlyAfterLeg1Success ==
    (pc \in {"leg2", "wait2"} \/ leg2 # "none") => leg1 = "success"

C1_Witness == leg1 = "success" /\ leg2 = "pending" /\ pc = "wait2"

\* C2: when leg 1 confirmed and leg 2 failed (its submission raised, its
\* receipt has failure status or no receipt came), the message reported names
\* leg 2 and is none of the messages reported by an execution whose leg 1
\* failed.
C2_PartialFailureNamesLeg2 ==
    (leg1 = "success" /\ LegFailed(leg2))
        => (report = "FailedTX2" /\ report \notin leg1FailReports)

\* C3: with the initial USDT->BUSD quote present and a return-leg quote the
\* aggregator answers, USDT->BUSD->USDT is a candidate, whatever the initial
\* BUSD->USDT quote is.
C3_DirectionsIndependent ==
    (pc = "decide" /\ quote1.ok /\ final1.ok) => HasDirection(DirA)

\* C4: with the initial USDT->BUSD quote unavailable, the initial BUSD->USDT
\* quote present, a sufficient BUSD balance and a return-leg quote of positive
\* net profit, _check_arbitrage returns the BUSD->USDT->BUSD opportunity.
C4_OtherDirectionReturned ==
    (/\ pc = "decide"
     /\ ~quote1.ok /\ quote2.ok /\ final2.ok
     /\ balance >= AMOUNT_USDT
     /\ CalculateNetProfit(final2.buyAmount - AMOUNT_USDT, quote2.gas,
                           final2.gas, bnb_price) > 0)
        => (/\ best # NoOpp
            /\ best.direction = DirB
            /\ best.quote1 = quote2 /\ best.quote2 = final2
            /\ best.net_profit_wei > 0)

C4_Witness ==
    /\ pc = "decide"
    /\ ~quote1.ok /\ quote2.ok /\ final2.ok
    /\ balance = AMOUNT_USDT
    /\ best.direction = DirB
    /\ best.net_profit_wei > 0

\* C5: when the BUSD balance read is below the trial amount, the only
\* USDT->BUSD request of the cycle is the initial one and BUSD->USDT->BUSD is
\* not a candidate.
C5_NoSecondLegWithoutBalance ==
    (balance # RpcError /\ balance < AMOUNT_USDT)
        => (/\ \A i \in DOMAIN requests :
                  (requests[i][1] = USDT /\ requests[i][2] = BUSD) => i = 1
            /\ ~HasDirection(DirB)
            /\ best.direction # DirB)

C5_Witness ==
    /\ pc = "decide"
    /\ balance = AMOUNT_USDT - 1
    /\ quote2.ok /\ final2.ok
    /\ Len(requests) >= 2

\* C6: right after an evaluation, the net profit of every candidate is its
\* gross profit (return-leg buyAmount minus the trial amount) minus
\* floor((gas1 + gas2) * gas price * reference rate / 1e18), gas1 and gas2
\* being the gas estimates of the direction's first and return quote.
C6_NetProfitFormula ==
    pc = "decide" =>
        \A i \in DOMAIN opportunities :
            LET o == opportunities[i]
                first == IF o.direction = DirA THEN quote1 ELSE quote2
                final == IF o.direction = DirA THEN final1 ELSE final2
                gross == final.buyAmount - AMOUNT_USDT
            IN  /\ o.gross_profit_wei = gross
                /\ o.net_profit_wei =
                     gross - (((first.gas + final.gas) * gas_price * bnb_price) \div E18)

C6_Witness ==
    /\ pc = "decide"
    /\ \E i \in DOMAIN opportunities :
          LET o == opportunities[i]
              cost == (o.quote1.gas + o.quote2.gas) * gas_price * bnb_price
          IN  /\ cost % E18 # 0
              /\ cost > E18
              /\ o.net_profit_wei < o.gross_profit_wei

\* C7: _check_arbitrage returns a candidate of greatest net profit, the
\* USDT->BUSD->USDT one when both candidates have the same net profit, and the
\* no-opportunity result when there is no candidate.
C7_BestSelected ==
    pc = "decide" =>
        /\ opportunities = <<>> => best = NoOpp
        /\ opportunities # <<>> =>
              /\ \E i \in DOMAIN opportunities : best = opportunities[i]
              /\ \A j \in DOMAIN opportunities :
                    best.net_profit_wei >= opportunities[j].net_profit_wei
        /\ (/\ Len(opportunities) = 2
            /\ opportunities[1].net_profit_wei = opportunities[2].net_profit_wei)
              => best.direction = DirA

C7_Witness ==
    /\ pc = "decide"
    /\ Len(opportunities) = 2
    /\ opportunities[1].net_profit_wei = opportunities[2].net_profit_wei
    /\ opportunities[1] # opportunities[2]
    /\ best.direction = DirA

\* C8: once a gas refresh has returned, the gas price is at least 0 and at
\* most the hard ceiling of the strategy.
C8_GasWithinCeiling ==
    gasRefreshed => (gas_price >= 0 /\ gas_price <= HardCeiling(gas_strategy))

\* C9: a leg is submitted in a cycle only if the net profit returned by the
\* evaluation of that cycle is strictly above MIN_PROFIT.
C9_ExecuteOnlyAboveMinimum ==
    (\/ leg1 # "none" \/ leg2 # "none"
     \/ pc \in {"exec_refresh", "exec_notify", "leg1", "wait1", "leg2", "wait2"})
        => best.net_profit_wei > MIN_PROFIT

C9_Witness ==
    /\ leg1 = "pending"
    /\ best.net_profit_wei = MIN_PROFIT + 1

C11_RetriesOn429 ==
    (unit.fn = "get_quote" /\ unit.session /\ unit.resps[1].status = 429) =>
        /\ unit.res.sent >= 2
        /\ unit.res.sent <= 4
        /\ \A k \in 2..4 :
              (/\ unit.resps[k].status = 200
               /\ \A j \in 1..(k - 1) : unit.resps[j].status = 429)
                 => unit.res.quote = unit.resps[k].quote
        /\ (\A j \in 1..4 : unit.resps[j].status = 429)
              => (unit.res.quote = NoQuote /\ unit.res.sent = 4)

\* C16: the gas price computed by a refresh that read the network gas price g
\* is the least of floor(g * multiplier), floor(base fee * cap) and the hard
\* ceiling of the strategy (medium 1.15 / 1.5 / 10 Gwei, aggressive 1.3 / 2 /
\* 20 Gwei), the base fee being g when the block has none or cannot be read.
C16_GasPriceFormula ==
    unit.fn = "gas_price" =>
        LET g == unit.g
            base == IF unit.blk \in {NoBaseFee, RpcError} THEN g ELSE unit.blk
        IN  unit.res =
              IF unit.strategy = "medium"
              THEN Min3((g * 115) \div 100, (base * 15) \div 10, 10 * GWEI)
              ELSE Min3((g * 13) \div 10, (base * 20) \div 10, 20 * GWEI)

\* C20: the gas limit of a leg is floor(g * 13 / 10) for a quoted gas
\* estimate g, and 800000 where that exceeds 800000; it is never above the
\* cap, and below the cap it is at least g.
C20_GasLimit ==
    unit.fn = "gas_limit" =>
        LET g == unit.g
            r == unit.res
        IN  /\ r <= 800000
            /\ g * 13 < 800000 * 10 =>
                  (r * 10 <= g * 13 /\ g * 13 < (r + 1) * 10 /\ r >= g)
            /\ g * 13 >= 800000 * 10 => r = 800000

C20_Witness ==
    /\ unit.fn = "gas_limit"
    /\ unit.g = 615384
    /\ unit.res = 799999

\* C14: once run() has fetched the rate for the first time, the reference
\* rate is positive in every state, a net profit is computed with a positive
\* rate, the rate changes only to a rate the price API returned (a failed
\* fetch leaves it as it is), and an unset rate becomes a returned rate or the
\* default 300 * 10**18.
C14_RateAlwaysSet ==
    /\ [](pc \notin {"new", "aborted", "start"} => bnb_price > 0)
    /\ [][bnb_price # 0 =>
            (bnb_price' = bnb_price \/ bnb_price' \in (Rates \ {0}))]_vars
    /\ [][bnb_price = 0 =>
            bnb_price' \in (Rates \ {0}) \cup {0, DefaultBnbPrice}]_vars

C14_Witness ==
    /\ pc = "decide"
    /\ opportunities # <<>>
    /\ bnb_price = DefaultBnbPrice

\* C15: when PRIVATE_KEY is not set or none of the RPC endpoints is
\* connected, construction raises: the bot never leaves the aborted state,
\* run() is not entered, no quote is requested and no leg is submitted.
C15_FatalConfigurationAborts ==
    (~startup.read /\ (~startup.key \/ \A i \in 1..3 : ~startup.rpcs[i]))
        => (/\ pc \in {"new", "aborted"}
            /\ ~session
            /\ requests = <<>>
            /\ leg1 = "none" /\ leg2 = "none")

C15_Witness ==
    /\ pc = "aborted"
    /\ ~startup.key
    /\ startup.rpcs[2]

\* C12: when an execution is reported as a leg-1 failure, the leg-1
\* transaction is not mined with success status, then or later.
C12_FailedLeg1NeverMined ==
    (report = "FailedTX1" /\ tx1.sent) => tx1.fate # "mined_ok"

\* C13: every leg transaction broadcast by an execution carries the gas price
\* set by the refresh at the start of that execution.
C13_LegsCarryRefreshedGas ==
    /\ tx1.sent => (execGas # Unset /\ tx1.gasPrice = execGas)
    /\ tx2.sent => (execGas # Unset /\ tx2.gasPrice = execGas)

C13_Witness ==
    /\ tx1.sent /\ tx2.sent
    /\ tx1.gasPrice = execGas /\ tx2.gasPrice = execGas
    /\ execGas = 13

\* C17: a step that changes the gas price is a step of one of the three
\* calls of _update_gas_parameters; the evaluation with its quote requests,
\* the decision, the notifications, the leg submissions, the confirmation
\* polls and the sleeps leave it as it is.
C17_GasChangedOnlyByRefresh ==
    [][gas_price' # gas_price =>
          (InitialRefresh \/ PeriodicRefresh \/ ExecRefresh)]_vars

C17_Witness ==
    /\ pc = "wait2"
    /\ elapsed > 0
    /\ tx1.gasPrice = gas_price /\ tx2.gasPrice = gas_price
    /\ gas_price = 3

\* C18: a transaction of the bot that is still unmined never shares its
\* nonce with an unmined transaction of an earlier execution or with the
\* other leg.
C18_NoNonceReuse ==
    /\ tx1.fate = "pending" => tx1.nonce \notin stale
    /\ tx2.fate = "pending" => tx2.nonce \notin stale
    /\ (tx1.fate = "pending" /\ tx2.fate = "pending") => tx1.nonce # tx2.nonce

\* C19: a step of the confirmation wait ends it as confirmed only with a
\* receipt of success status and as failed with a receipt of failure status;
\* without a receipt it sleeps and polls again while the time slept is below
\* the timeout and ends as failed once it is not; the time slept stays below
\* the timeout plus one sleep, and every wait ends.
WaitStepOk(at, tx, leg2nd, failure) ==
    (pc = at /\ (pc' # pc \/ elapsed' # elapsed)) =>
        /\ leg2nd \in {"pending", "success", "reverted", "timeout"}
        /\ leg2nd = "success" => (tx.fate = "mined_ok" /\ report' # failure)
        /\ leg2nd = "reverted" =>
              (tx.fate = "mined_fail" /\ report' = failure /\ ret' = "false")
        /\ leg2nd = "timeout" =>
              (/\ elapsed + SleepRetry >= WaitTimeout
               /\ report' = failure /\ ret' = "false")
        /\ leg2nd = "pending" =>
              (/\ pc' = pc
               /\ elapsed' \in {elapsed + SleepNone, elapsed + SleepRetry}
               /\ elapsed' < WaitTimeout
               /\ report' = report /\ ret' = ret)
        /\ leg2nd # "pending" => pc' # pc

C19_WaitEnds ==
    /\ [][WaitStepOk("wait1", tx1, leg1', "FailedTX1")]_vars
    /\ [][WaitStepOk("wait2", tx2, leg2', "FailedTX2")]_vars
    /\ [](elapsed < WaitTimeout)
    /\ (pc = "wait1") ~> (pc # "wait1")
    /\ (pc = "wait2") ~> (pc # "wait2")

C19_Witness ==
    /\ leg1 = "timeout"
    /\ report = "FailedTX1"
    /\ tx1.fate = "pending"

\* C21: while the loop runs without a trade, the time since the last gas
\* refresh never exceeds one refresh period plus one iteration (with the
\* width of the window as allowance).
C21_RefreshCadence ==
    sched.silent <= RefreshPeriod + RefreshWindow + CycleSleep + MaxLatency

\* C22: when the balance read of BUSD fails, no return-leg request of
\* BUSD->USDT->BUSD is issued and a USDT->BUSD->USDT candidate evaluated in
\* the same cycle is what _check_arbitrage returns.
C22_BalanceFailureExcludesOnlyB ==
    balance = RpcError =>
        /\ \A i \in DOMAIN requests :
              (requests[i][1] = USDT /\ requests[i][2] = BUSD) => i = 1
        /\ (quote1.ok /\ quote2.ok /\ final1.ok) =>
              (/\ best.direction = DirA
               /\ pc \notin {"loop_error", "backoff"})

\* C23: a step that hands a message to _send_telegram goes on to the same
\* place whether the message is delivered, not delivered or not even
\* attempted: the place the program text gives for that message.
NotifyFlow ==
    {<<"start", "Started", "init_gas">>,
     <<"decide", "LowProfit", "sleep">>,
     <<"exec_refresh", "ExecError", "sleep">>,
     <<"exec_notify", "Found", "leg1">>,
     <<"leg1", "ExecError", "sleep">>,
     <<"wait1", "FailedTX1", "sleep">>,
     <<"leg2", "ExecError", "sleep">>,
     <<"wait2", "FailedTX2", "sleep">>,
     <<"wait2", "Completed", "cooldown">>,
     <<"loop_error", "LoopError", "backoff">>}

C23_NotificationFailureSwallowed ==
    [][(pc' # pc /\ delivery' # "none") =>
          <<pc, report', pc'>> \in NotifyFlow]_vars

C23_Witness ==
    /\ pc = "cooldown"
    /\ report = "Completed"
    /\ delivery = "failed"
    /\ tx1.fate = "mined_ok" /\ tx2.fate = "mined_ok"

\* C24: the net profit of the executed opportunity, recomputed with the gas
\* price its leg 1 was sent with, is above MIN_PROFIT.
C24_ProfitHoldsAtSentGasPrice ==
    tx1.sent =>
        best.gross_profit_wei
          - (((best.quote1.gas + best.quote2.gas) * tx1.gasPrice * bnb_price)
               \div E18) > MIN_PROFIT

\* C25: with the operator channel configured, every message handed to
\* _send_telegram leads to a request to the channel.
C25_EveryNotificationAttempted ==
    (telegram /\ delivery # "none") => delivery # "skipped"

====
